---- MODULE Spec2Model ----
(***************************************************************************)
(* Model of the generate-execute-repair loop of local-sql-agent:           *)
(* SQLAgent.process_query (sql_agent.py) with the parts of LLMClient       *)
(* (llm_client.py) and of the pydantic models (models.py) it runs through. *)
(*                                                                         *)
(* Encoding of Python values:                                              *)
(*   - an Optional / JSON-nullable value is a sequence of length <= 1:     *)
(*     None (null) is <<>>, a present value v is <<v>>;                    *)
(*   - a SQL string is one token ("" is the empty string);                 *)
(*   - every other text (explanations, error messages) is the sequence of  *)
(*     the pieces it is concatenated from, so that f-string formatting is  *)
(*     concatenation \o and "x appears in the text" is decidable.          *)
(***************************************************************************)
EXTENDS Integers, Sequences, FiniteSets, TLC

VARIABLES
    db_path,              \* SQLAgent.db_path, fixed at construction
    schema_info,          \* SQLAgent.schema_info, built at construction
    max_retries,          \* SQLAgent.max_retries, fixed at construction
    pc,                   \* position of the process_query invocation
    natural_query,        \* argument of the running invocation
    current_sql,          \* local current_sql
    current_explanation,  \* local current_explanation
    attempts,             \* local attempts
    result,               \* local result (Optional[SQLQueryResult])
    error,                \* local error (Optional[str])
    improvement_history,  \* local improvement_history
    response,             \* the value process_query returned (Optional)
    calls,                \* history variable: the generator and engine calls
                          \* the running invocation made, in order
    content,              \* argument of LLMClient._extract_sql_from_response
    extracted,            \* the dict it returned (Optional)
    catalog,              \* the tables of the database _get_schema_info reads
    built,                \* what _get_schema_info returned or raised (Optional)
    owner,                \* the thread that opened the connection
    cursor,               \* SQLAgent.cursor, shared by all invocations
    inv,                  \* the locals of each concurrent invocation
    executions            \* history variable: direct execute_sql calls

vars == <<db_path, schema_info, max_retries, pc, natural_query, current_sql, current_explanation,
          attempts, result, error, improvement_history, response, calls,
          content, extracted, catalog, built, owner, cursor, inv, executions>>

(* The variables of the parser run on its own. *)
parserVars == <<content, extracted>>

(* The variables of _get_schema_info run on its own. *)
schemaVars == <<catalog, built>>

(* The variables of the shared connection and of the invocations and calls *)
(* that use it side by side.                                               *)
sessionVars == <<owner, cursor, inv, executions>>

(* The variables of a process_query invocation. *)
agentVars == <<db_path, schema_info, max_retries, pc, natural_query, current_sql, current_explanation,
               attempts, result, error, improvement_history, response, calls>>

----------------------------------------------------------------------------
(* Bounds of the model. *)

MaxRetriesBound == 3

Questions == {"nq1", "nq2"}
SqlPool == {"q1", "q2", "q3"}
ExplPool == {<<"e1">>, <<"e2">>}
EngineMessages == {"m1", "m2"}

(* The databases an agent is constructed on, each with the text            *)
(* _get_schema_info renders for it: a description, or the diagnostic it    *)
(* returns when the catalog cannot be read.                                *)
Databases ==
    {[path |-> "sales_database.db",
      schema |-> <<"Database Schema:\n\n", "Table: customers\n">>],
     [path |-> "broken.db",
      schema |-> <<"Error retrieving schema: ", "m1">>]}

----------------------------------------------------------------------------
(* Optional values. *)

None == <<>>
Some(v) == <<v>>
IsNone(o) == o = <<>>
Get(o) == o[1]

(* Python truthiness of an Optional[str] / Optional[list] local. *)
Truthy(o) == o # None /\ Get(o) # <<>>

----------------------------------------------------------------------------
(* str(int): decimal digits, most significant first. *)

Digits == <<"0", "1", "2", "3", "4", "5", "6", "7", "8", "9">>

RECURSIVE StrInt(_)
StrInt(n) ==
    IF n < 10 THEN <<Digits[n + 1]>>
    ELSE StrInt(n \div 10) \o <<Digits[(n % 10) + 1]>>

----------------------------------------------------------------------------
(* The generator: what one HTTP exchange with the LLM endpoint yields.     *)
(*   transport : the request failed; cause is "network" (requests raised), *)
(*               "status" (raise_for_status on a non-2xx status) or        *)
(*               "envelope" (no choices[0].message.content in the body);   *)
(*   garbage   : a text none of the parser's methods 1-5 accepts;          *)
(*   json      : a text holding an object with both keys sql_query and     *)
(*               explanation, whose values are any JSON values (a string   *)
(*               or null here).                                            *)

JsonSqlValues == {None} \cup {Some(s) : s \in SqlPool \cup {""}}
JsonExplValues == {None} \cup {Some(e) : e \in ExplPool}

TransportCauses == {"network", "status", "envelope"}

GeneratorReplies ==
    {[kind |-> "transport", cause |-> c, sql |-> None, expl |-> None] :
         c \in TransportCauses}
    \cup {[kind |-> "garbage", cause |-> "", sql |-> None, expl |-> None]}
    \cup {[kind |-> "json", cause |-> "", sql |-> s, expl |-> e] :
              s \in JsonSqlValues, e \in JsonExplValues}

(* str(e) of the exception LLMClient.generate_sql / improve_sql catches:   *)
(* get_completion wraps a RequestException, a missing envelope key raises  *)
(* a KeyError on its own.                                                  *)
TransportErrorText(reply) ==
    IF reply.cause = "envelope" THEN <<"'choices'">>
    ELSE <<"Error communicating with LLM API: ", reply.cause>>

(* Variant: a failed request is sent once more. *)
RequestsIssued_RetryOnFailure(reply) == IF reply.kind = "transport" THEN 2 ELSE 1

(* The number of requests.post calls one get_completion makes: there is no *)
(* loop around the post.                                                   *)
RequestsIssued(reply) == 1

(* LLMClient._extract_sql_from_response on a reply that reached the parser: *)
(* methods 1, 3 and 4 return result.get(...) of the two keys unchecked; the *)
(* last resort returns an empty sql_query and the parse diagnostic.         *)
ExtractSqlFromResponse(reply) ==
    IF reply.kind = "json"
    THEN [sql_query |-> reply.sql, explanation |-> reply.expl]
    ELSE [sql_query |-> Some(""),
          explanation |-> Some(<<"Error parsing LLM response: ", "content[:100]", "...">>)]

(* LLMClient.generate_sql: try get_completion + parse, except -> diagnostic. *)
LLMGenerateSql(reply) ==
    IF reply.kind = "transport"
    THEN [sql_query |-> Some(""),
          explanation |-> Some(<<"Error generating SQL: ">> \o TransportErrorText(reply))]
    ELSE ExtractSqlFromResponse(reply)

(* LLMClient.improve_sql: the same with its own diagnostic. *)
LLMImproveSql(reply) ==
    IF reply.kind = "transport"
    THEN [sql_query |-> Some(""),
          explanation |-> Some(<<"Error improving SQL: ">> \o TransportErrorText(reply))]
    ELSE ExtractSqlFromResponse(reply)

(* pydantic validation of SQLGenerationResponse: both fields are required   *)
(* str fields, so None is rejected with a ValidationError.                  *)
ValidGenerationResponse(d) ==
    ~IsNone(d.sql_query) /\ ~IsNone(d.explanation)

----------------------------------------------------------------------------
(* The engine: what cursor.execute + fetchall yield for one statement.     *)

EngineOutcomes ==
    {[kind |-> "error", msg |-> m, columns |-> <<>>, rows |-> <<>>] :
         m \in EngineMessages}
    \cup {[kind |-> "rows", msg |-> "", columns |-> <<"a", "b">>, rows |-> <<>>],
          [kind |-> "rows", msg |-> "", columns |-> <<"a", "b">>,
           rows |-> << <<1, 2>>, <<3, 4>> >>],
          [kind |-> "rows", msg |-> "", columns |-> <<"a">>,
           rows |-> << <<1>> >>],
          [kind |-> "rows", msg |-> "", columns |-> <<"a", "a">>,
           rows |-> << <<1, 2>> >>],
          [kind |-> "rows", msg |-> "", columns |-> <<"b", "a", "A">>,
           rows |-> << <<1, 2, 3>> >>]}

(* ASCII lower case of a column name. *)
LowerName(c) == IF c = "A" THEN "a" ELSE IF c = "B" THEN "b" ELSE c

(* sqlite3.Row.__getitem__ with a column name: the first column so named, *)
(* compared without regard to ASCII case.                                 *)
RowByName(columns, row, col) ==
    row[CHOOSE i \in 1..Len(columns) :
            /\ LowerName(columns[i]) = LowerName(col)
            /\ \A j \in 1..(i - 1) : LowerName(columns[j]) # LowerName(col)]

(* Variant: the engine's text is replaced by a fixed summary. *)
ExecuteSql_Sanitized(o) ==
    IF o.kind = "error"
    THEN [result |-> None, error |-> Some(<<"SQL execution error">>)]
    ELSE IF o.rows = <<>>
    THEN [result |-> Some([columns |-> <<>>, rows |-> <<>>, row_count |-> 0]),
          error |-> None]
    ELSE [result |-> Some([columns |-> o.columns, rows |-> o.rows,
                           row_count |-> Len(o.rows)]),
          error |-> None]

(* Variant: the column names are reported also when there are no rows. *)
ExecuteSql_KeepColumns(o) ==
    IF o.kind = "error"
    THEN [result |-> None, error |-> Some(<<"SQL execution error: ", o.msg>>)]
    ELSE [result |-> Some([columns |-> o.columns, rows |-> o.rows,
                           row_count |-> Len(o.rows)]),
          error |-> None]

(* SQLAgent.execute_sql: (result, error). *)
ExecuteSql(o) ==
    IF o.kind = "error"
    THEN [result |-> None, error |-> Some(<<"SQL execution error: ", o.msg>>)]
    ELSE IF o.rows = <<>>
    THEN [result |-> Some([columns |-> <<>>, rows |-> <<>>, row_count |-> 0]),
          error |-> None]
    ELSE [result |-> Some([columns |-> o.columns,
                           rows |-> [r \in 1..Len(o.rows) |->
                                       [c \in 1..Len(o.columns) |->
                                          RowByName(o.columns, o.rows[r], o.columns[c])]],
                           row_count |-> Len(o.rows)]),
          error |-> None]

----------------------------------------------------------------------------
(* The pieces of SQLAgent.process_query. *)

(* Variant: the empty-SQL check is missing. *)
NoSqlGenerated_Never(sql) == FALSE

(* `if not current_sql` after the initial generation. *)
NoSqlGenerated(sql) == sql = ""

(* The early return on an empty initial generation; improvement_history is *)
(* left at the model's default, None.                                      *)
GenerationFailedResponse(q, expl) ==
    [natural_query |-> q,
     generated_sql |-> "",
     explanation |-> <<"Failed to generate SQL: ">> \o expl,
     query_result |-> None,
     error |-> Some(<<"Could not generate SQL query">>),
     improvement_history |-> None]

(* Variant: the attempt counter is carried over from the invocation before. *)
InitialAttempts_Carried(prev) == prev

(* `attempts = 0`: the counter is a local, set anew in every invocation. *)
InitialAttempts(prev) == 0

(* Variant: off-by-one loop bound. *)
LoopCond_Inclusive(a, m) == a <= m

(* `while attempts < self.max_retries`. *)
LoopCond(a, m) == a < m

(* `if not error: break`. *)
ExecutionSucceeded(err) == ~Truthy(err)

(* Variant: the attempt number is the 0-based counter. *)
AttemptRecord_ZeroBased(a, sql, err) == [attempt |-> a, sql |-> sql, error |-> err]

(* Variant: the attempt number is not advanced. *)
AttemptRecord_Fixed(a, sql, err) == [attempt |-> 1, sql |-> sql, error |-> err]

(* The dict appended to improvement_history. *)
AttemptRecord(a, sql, err) == [attempt |-> a + 1, sql |-> sql, error |-> err]

(* Variant: the failure of the last attempt the budget allows is not recorded. *)
RecordAttempt_DropOnLast(h, a, sql, err) ==
    IF a + 1 >= max_retries THEN h
    ELSE Append(h, [attempt |-> a + 1, sql |-> sql, error |-> err])

(* Variant: the record is inserted at the front. *)
RecordAttempt_Prepend(h, a, sql, err) ==
    <<[attempt |-> a + 1, sql |-> sql, error |-> err]>> \o h

(* improvement_history.append({...}). *)
RecordAttempt(h, a, sql, err) == Append(h, AttemptRecord(a, sql, err))

(* Variants: the stagnation check is missing; no check at all. *)
RepairRejected_EmptyOnly(new, cur) == new = ""

RepairRejected_Never(new, cur) == FALSE

(* `if not improved_response.sql_query or improved_response.sql_query ==   *)
(* current_sql: break`.                                                    *)
RepairRejected(new, cur) == new = "" \/ new = cur

(* Variant: the repair is asked about the first failure of the invocation. *)
RepairArguments_FirstFailure(q, sql, err, h) ==
    [natural_query |-> q, failed_sql |-> h[1].sql, error_message |-> h[1].error]

(* The arguments of self.improve_sql(natural_query, current_sql, error):   *)
(* the locals as they are after the execution that just failed.            *)
RepairArguments(q, sql, err, h) ==
    [natural_query |-> q, failed_sql |-> sql, error_message |-> err]

(* Variant: the explanation is replaced by the repair's explanation. *)
ExtendExplanation_Replace(expl, a, e) ==
    <<"\n\nImproved SQL (attempt ">> \o StrInt(a + 1) \o <<"): ">> \o e

(* current_explanation += f"\n\nImproved SQL (attempt {attempts + 1}): ..." *)
ExtendExplanation(expl, a, e) ==
    expl \o <<"\n\nImproved SQL (attempt ">> \o StrInt(a + 1) \o <<"): ">> \o e

(* Variant: the history is passed on as it is. *)
HistoryOrNone_Always(h) == Some(h)

(* `improvement_history if improvement_history else None`. *)
HistoryOrNone(h) == IF h # <<>> THEN Some(h) ELSE None

(* Variant: the response reports the first recorded failure. *)
AssembleResponse_FirstError(q, sql, expl, res, err, h) ==
    [natural_query |-> q,
     generated_sql |-> sql,
     explanation |-> expl,
     query_result |-> res,
     error |-> IF h # <<>> THEN Some(h[1].error) ELSE err,
     improvement_history |-> IF h # <<>> THEN Some(h) ELSE None]

(* The final SQLAgentResponse(...). *)
AssembleResponse(q, sql, expl, res, err, h) ==
    [natural_query |-> q,
     generated_sql |-> sql,
     explanation |-> expl,
     query_result |-> res,
     error |-> err,
     improvement_history |-> HistoryOrNone(h)]

----------------------------------------------------------------------------
(* Entries of the history variable calls. *)

(* reply: what the endpoint answered; requests: the requests the call sent; *)
(* engine: what the engine did with the statement; schema: the schema text  *)
(* handed to the generator.                                                 *)
NoOut == [sql_query |-> None, explanation |-> None]

(* Variant: the schema text is rendered again for each call. *)
SchemaPassed_Rebuilt(s) == <<"Database Schema:\n\n", "rebuilt">>

(* The schema argument of llm_client.generate_sql / improve_sql:           *)
(* self.schema_info as it is.                                              *)
SchemaPassed(s) == s

GenerateCall(q, s, reply, d) ==
    [op |-> "generate_sql", query |-> q, sql |-> "", error_message |-> None,
     out |-> d, result |-> None, error |-> None, recorded |-> 0,
     reply |-> Some(reply), requests |-> RequestsIssued(reply), engine |-> None,
     schema |-> SchemaPassed(s)]

ExecuteCall(sql, o, r) ==
    [op |-> "execute_sql", query |-> "", sql |-> sql, error_message |-> None,
     out |-> NoOut, result |-> r.result, error |-> r.error, recorded |-> 0,
     reply |-> None, requests |-> 0, engine |-> Some(o), schema |-> <<>>]

(* recorded: the length of improvement_history when the repair call is made. *)
ImproveCall(q, s, sql, err, reply, d, n) ==
    [op |-> "improve_sql", query |-> q, sql |-> sql, error_message |-> Some(err),
     out |-> d, result |-> None, error |-> None, recorded |-> n,
     reply |-> Some(reply), requests |-> RequestsIssued(reply), engine |-> None,
     schema |-> SchemaPassed(s)]

----------------------------------------------------------------------------
(* State machine. *)

(* No process_query invocation has been made. *)
AgentIdle ==
    /\ pc = "idle"
    /\ natural_query = ""
    /\ current_sql = ""
    /\ current_explanation = <<>>
    /\ attempts = 0
    /\ result = None
    /\ error = None
    /\ improvement_history = <<>>
    /\ response = None
    /\ calls = <<>>

(* No run of _get_schema_info on its own. *)
SchemaIdle ==
    /\ catalog = <<>>
    /\ built = None

(* A cursor on which nothing was executed: no pending rows, description    *)
(* None.                                                                   *)
FreshCursor == [by |-> 0, stmt |-> "", rows |-> <<>>, description |-> <<>>]

(* No use of the connection side by side. *)
SessionIdle ==
    /\ owner = 0
    /\ cursor = FreshCursor
    /\ inv = <<>>
    /\ executions = <<>>

(* SQLAgent.__init__: db_path, max_retries and the schema text are set. *)
Constructed ==
    \E db \in Databases :
        /\ db_path = db.path
        /\ schema_info = db.schema

Init ==
    /\ Constructed
    /\ max_retries \in 0..MaxRetriesBound
    /\ AgentIdle
    /\ content = <<>>
    /\ extracted = None
    /\ SchemaIdle
    /\ SessionIdle

(* A caller invokes process_query(q); the previous invocation, if any, has *)
(* returned or raised.                                                     *)
Call ==
    /\ pc \in {"idle", "done", "raised"}
    /\ \E q \in Questions : natural_query' = q
    /\ pc' = "generate"
    /\ current_sql' = ""
    /\ current_explanation' = <<>>
    /\ attempts' = InitialAttempts(attempts)
    /\ result' = None
    /\ error' = None
    /\ improvement_history' = <<>>
    /\ response' = None
    /\ calls' = <<>>
    /\ UNCHANGED <<db_path, schema_info, max_retries>>
    /\ UNCHANGED <<parserVars, schemaVars, sessionVars>>

(* Initial generation and the empty-SQL early return. *)
Generate ==
    /\ pc = "generate"
    /\ \E reply \in GeneratorReplies :
         LET d == LLMGenerateSql(reply) IN
         /\ calls' = Append(calls, GenerateCall(natural_query, schema_info, reply, d))
         /\ IF ~ValidGenerationResponse(d)
            THEN /\ pc' = "raised"
                 /\ UNCHANGED <<current_sql, current_explanation, response>>
            ELSE /\ current_sql' = Get(d.sql_query)
                 /\ current_explanation' = Get(d.explanation)
                 /\ IF NoSqlGenerated(Get(d.sql_query))
                    THEN /\ response' = Some(GenerationFailedResponse(
                                                 natural_query, Get(d.explanation)))
                         /\ pc' = "done"
                    ELSE /\ pc' = "loop"
                         /\ UNCHANGED response
    /\ UNCHANGED <<db_path, schema_info, max_retries, natural_query, attempts, result, error,
                   improvement_history>>
    /\ UNCHANGED <<parserVars, schemaVars, sessionVars>>

(* The while condition. *)
LoopTest ==
    /\ pc = "loop"
    /\ pc' = IF LoopCond(attempts, max_retries) THEN "execute" ELSE "return"
    /\ UNCHANGED <<db_path, schema_info, max_retries, natural_query, current_sql, current_explanation,
                   attempts, result, error, improvement_history, response, calls>>
    /\ UNCHANGED <<parserVars, schemaVars, sessionVars>>

(* execute_sql(current_sql), the break on success, the attempt record. *)
Execute ==
    /\ pc = "execute"
    /\ \E o \in EngineOutcomes :
         LET r == ExecuteSql(o) IN
         /\ result' = r.result
         /\ error' = r.error
         /\ calls' = Append(calls, ExecuteCall(current_sql, o, r))
         /\ IF ExecutionSucceeded(r.error)
            THEN /\ pc' = "return"
                 /\ UNCHANGED improvement_history
            ELSE /\ improvement_history' =
                        RecordAttempt(improvement_history, attempts, current_sql,
                                      Get(r.error))
                 /\ pc' = "repair"
    /\ UNCHANGED <<db_path, schema_info, max_retries, natural_query, current_sql, current_explanation,
                   attempts, response>>
    /\ UNCHANGED <<parserVars, schemaVars, sessionVars>>

(* improve_sql(...), the break on an empty or unchanged repair, the update. *)
Repair ==
    /\ pc = "repair"
    /\ \E reply \in GeneratorReplies :
         LET d == LLMImproveSql(reply)
             a == RepairArguments(natural_query, current_sql, Get(error),
                                  improvement_history)
         IN
         /\ calls' = Append(calls, ImproveCall(a.natural_query, schema_info,
                                               a.failed_sql, a.error_message,
                                               reply, d, Len(improvement_history)))
         /\ IF ~ValidGenerationResponse(d)
            THEN /\ pc' = "raised"
                 /\ UNCHANGED <<current_sql, current_explanation, attempts>>
            ELSE IF RepairRejected(Get(d.sql_query), current_sql)
            THEN /\ pc' = "return"
                 /\ UNCHANGED <<current_sql, current_explanation, attempts>>
            ELSE /\ current_sql' = Get(d.sql_query)
                 /\ current_explanation' =
                        ExtendExplanation(current_explanation, attempts,
                                          Get(d.explanation))
                 /\ attempts' = attempts + 1
                 /\ pc' = "loop"
    /\ UNCHANGED <<db_path, schema_info, max_retries, natural_query, result, error, improvement_history,
                   response>>
    /\ UNCHANGED <<parserVars, schemaVars, sessionVars>>

(* return SQLAgentResponse(...). *)
Return ==
    /\ pc = "return"
    /\ response' = Some(AssembleResponse(natural_query, current_sql,
                                         current_explanation, result, error,
                                         improvement_history))
    /\ pc' = "done"
    /\ UNCHANGED <<db_path, schema_info, max_retries, natural_query, current_sql, current_explanation,
                   attempts, result, error, improvement_history, calls>>
    /\ UNCHANGED <<parserVars, schemaVars, sessionVars>>

Next == Call \/ Generate \/ LoopTest \/ Execute \/ Repair \/ Return

Spec == Init /\ [][Next]_vars

----------------------------------------------------------------------------
(* LLMClient._extract_sql_from_response on the text itself.                *)
(*                                                                         *)
(* A text is a sequence of tokens, each token a fixed run of characters.   *)
(* Substring search, split and find of the code act on the tokens; the     *)
(* tokens are chosen so that no searched substring straddles two of them.  *)
(* A token "key:value" stands for the JSON member  "key": value .          *)

(* The code fence is three backquotes; the tokens write it with quotes. *)
FenceJson == "'''json"
Fence == "'''"
Newline == "\n"
Space == " "
LongWord == "x * 60"

MemberSql == "sql_query:'SELECT 1'"
MemberSqlEmpty == "sql_query:''"
MemberSqlNull == "sql_query:null"
MemberExpl == "explanation:'ok'"
MemberExplEmpty == "explanation:''"
MemberOther == "note:1"

MemberTokens ==
    {MemberSql, MemberSqlEmpty, MemberSqlNull, MemberExpl, MemberExplEmpty,
     MemberOther}

WhitespaceTokens == {Newline, Space}
FenceTokens == {Fence, FenceJson}

(* Tokens whose upper-cased characters contain SELECT, FROM. *)
SelectTokens == {"select 1", MemberSql}
FromTokens == {"from t"}

(* The key and the value of a JSON member; a string value is a text. *)
MemberKey(t) ==
    IF t \in {MemberSql, MemberSqlEmpty, MemberSqlNull} THEN "sql_query"
    ELSE IF t \in {MemberExpl, MemberExplEmpty} THEN "explanation"
    ELSE "note"

MemberValue(t) ==
    CASE t = MemberSql -> Some(<<"SELECT 1">>)
      [] t = MemberSqlEmpty -> Some(<<>>)
      [] t = MemberSqlNull -> None
      [] t = MemberExpl -> Some(<<"ok">>)
      [] t = MemberExplEmpty -> Some(<<>>)
      [] OTHER -> Some(<<"1">>)

(* len() of a token. *)
Width(t) ==
    CASE t = FenceJson -> 7
      [] t = Fence -> 3
      [] t \in {"sql", "SQL", "ite"} -> 3
      [] t = "sqlite" -> 6
      [] t = "json" -> 4
      [] t = LongWord -> 60
      [] t = "select 1" -> 8
      [] t = "from t" -> 6
      [] t = MemberSql -> 23
      [] t = MemberSqlEmpty -> 15
      [] t = MemberSqlNull -> 17
      [] t = MemberExpl -> 19
      [] t = MemberExplEmpty -> 17
      [] t = MemberOther -> 9
      [] OTHER -> 1

TokensOf(t) == {t[i] : i \in 1..Len(t)}

(* The least / greatest index of a token of S in t from position lo on; 0  *)
(* when there is none (str.find / str.rfind, 1-based).                     *)
FindFirst(t, S, lo) ==
    LET I == {i \in lo..Len(t) : t[i] \in S}
    IN IF I = {} THEN 0 ELSE CHOOSE i \in I : \A j \in I : i <= j

FindLast(t, S) ==
    LET I == {i \in 1..Len(t) : t[i] \in S}
    IN IF I = {} THEN 0 ELSE CHOOSE i \in I : \A j \in I : i >= j

(* str.strip(). *)
Strip(t) ==
    LET I == {i \in 1..Len(t) : t[i] \notin WhitespaceTokens}
    IN IF I = {} THEN <<>>
       ELSE SubSeq(t, CHOOSE i \in I : \A j \in I : i <= j,
                      CHOOSE i \in I : \A j \in I : i >= j)

(* text[:n]: whole tokens while they fit, then the cut token with the      *)
(* number of its characters that are kept.                                 *)
RECURSIVE FirstChars(_, _)
FirstChars(t, n) ==
    IF t = <<>> \/ n = 0 THEN <<>>
    ELSE IF Width(Head(t)) <= n
    THEN <<Head(t)>> \o FirstChars(Tail(t), n - Width(Head(t)))
    ELSE <<Head(t), "[:">> \o StrInt(n) \o <<"]">>

(* str.split(fence) sees the fence inside the json-tagged fence too. *)
RECURSIVE SplitFenceJson(_)
SplitFenceJson(t) ==
    IF t = <<>> THEN <<>>
    ELSE IF Head(t) = FenceJson THEN <<Fence, "json">> \o SplitFenceJson(Tail(t))
    ELSE <<Head(t)>> \o SplitFenceJson(Tail(t))

(* json.loads: whitespace between tokens is insignificant; the only        *)
(* documents of the model are objects { member, member, ... }.             *)
NotWhitespace(x) == x \notin WhitespaceTokens
IsMember(x) == x \in MemberTokens

JsonLoads(t) ==
    LET b == SelectSeq(t, NotWhitespace)
        n == Len(b)
        inner == SubSeq(b, 2, n - 1)
        wellFormed ==
            /\ n >= 2
            /\ b[1] = "{"
            /\ b[n] = "}"
            /\ \/ inner = <<>>
               \/ /\ Len(inner) % 2 = 1
                  /\ \A i \in 1..Len(inner) :
                        IF i % 2 = 1 THEN inner[i] \in MemberTokens
                        ELSE inner[i] = ","
    IN IF wellFormed THEN [ok |-> TRUE, members |-> SelectSeq(inner, IsMember)]
       ELSE [ok |-> FALSE, members |-> <<>>]

HasKey(members, k) == \E i \in 1..Len(members) : MemberKey(members[i]) = k

(* dict.get(k): of a repeated key the last member counts. *)
DictGet(members, k) ==
    MemberValue(members[CHOOSE i \in 1..Len(members) :
                            /\ MemberKey(members[i]) = k
                            /\ \A j \in (i + 1)..Len(members) :
                                  MemberKey(members[j]) # k])

(* `if "sql_query" in result and "explanation" in result: return {...}`. *)
AcceptObject(j) ==
    IF j.ok /\ HasKey(j.members, "sql_query") /\ HasKey(j.members, "explanation")
    THEN Some([sql_query |-> DictGet(j.members, "sql_query"),
               explanation |-> DictGet(j.members, "explanation")])
    ELSE None

(* Method 1: the text between the first json-tagged fence and the next    *)
(* fence, content.split(fence + "json")[1].split(fence)[0].                *)
Method1(c) ==
    LET i == FindFirst(c, {FenceJson}, 1)
        after == SubSeq(c, i + 1, Len(c))
        k == FindFirst(after, FenceTokens, 1)
        inner == IF k = 0 THEN after ELSE SubSeq(after, 1, k - 1)
    IN AcceptObject(JsonLoads(inner))

(* The tokens whose lower-cased characters start with sql, and what [3:]   *)
(* leaves of each.                                                         *)
SqlPrefixed == {"sql", "SQL", "sqlite"}

AfterSqlPrefix(t) == IF t = "sqlite" THEN <<"ite">> ELSE <<>>

(* Method 2: content.split(fence)[1].split(fence)[0]; when it starts with  *)
(* sql in any case, its first three characters are removed.                *)
Method2(c) ==
    LET x == SplitFenceJson(c)
        i == FindFirst(x, {Fence}, 1)
        after == SubSeq(x, i + 1, Len(x))
        k == FindFirst(after, {Fence}, 1)
        code == Strip(IF k = 0 THEN after ELSE SubSeq(after, 1, k - 1))
        sql == IF code # <<>> /\ Head(code) \in SqlPrefixed
               THEN Strip(AfterSqlPrefix(Head(code)) \o Tail(code))
               ELSE code
    IN Some([sql_query |-> Some(sql),
             explanation |-> Some(<<"Extracted SQL query from code block">>)])

(* Method 3: content[content.find('{') : content.rfind('}') + 1]. *)
Method3(c) ==
    LET i == FindFirst(c, {"{"}, 1)
        j == FindLast(c, {"}"})
    IN IF i >= 1 /\ j >= i THEN AcceptObject(JsonLoads(SubSeq(c, i, j)))
       ELSE None

(* Method 4: json.loads(content). *)
Method4(c) == AcceptObject(JsonLoads(c))

(* The lines captured from the first line with SELECT to the first line    *)
(* with ';', joined with spaces (the newlines between them become spaces). *)
RescuedLines(c) ==
    LET sel == FindFirst(c, SelectTokens, 1)
        before == {i \in 1..(sel - 1) : c[i] = Newline}
        lineStart == IF before = {} THEN 1
                     ELSE 1 + CHOOSE i \in before : \A j \in before : i >= j
        semi == FindFirst(c, {";"}, lineStart)
        nextNl == IF semi = 0 THEN 0 ELSE FindFirst(c, {Newline}, semi)
        lineEnd == IF nextNl = 0 THEN Len(c) ELSE nextNl - 1
    IN [i \in 1..(lineEnd - lineStart + 1) |->
           IF c[lineStart + i - 1] = Newline THEN Space
           ELSE c[lineStart + i - 1]]

(* Variant: the capture starts on the line after the one with SELECT. *)
Method5_AfterSelectLine(c) ==
    LET sel == FindFirst(c, SelectTokens, 1)
        nl == IF sel = 0 THEN 0 ELSE FindFirst(c, {Newline}, sel)
        rest == IF nl = 0 THEN <<>> ELSE Strip(SubSeq(c, nl + 1, Len(c)))
    IN IF rest = <<>> THEN None
       ELSE Some([sql_query |-> Some(rest),
                  explanation |-> Some(<<"Extracted SQL query from text">>)])

(* Method 5: keyword rescue. *)
Method5(c) ==
    IF TokensOf(c) \cap (SelectTokens \cup FromTokens) = {} THEN None
    ELSE IF TokensOf(c) \cap SelectTokens = {} THEN None
    ELSE LET joined == Strip(RescuedLines(c))
             sql == IF joined[Len(joined)] = ";"
                    THEN SubSeq(joined, 1, Len(joined) - 1)
                    ELSE joined
         IN Some([sql_query |-> Some(sql),
                  explanation |-> Some(<<"Extracted SQL query from text">>)])

PrefixLen == 100

(* Variant: the whole text is quoted. *)
LastResort_Untruncated(c) ==
    [sql_query |-> Some(<<>>),
     explanation |-> Some(<<"Error parsing LLM response: ">> \o c \o <<"...">>)]

(* Last resort: f"Error parsing LLM response: {content[:100]}...". *)
LastResort(c) ==
    [sql_query |-> Some(<<>>),
     explanation |-> Some(<<"Error parsing LLM response: ">>
                          \o FirstChars(c, PrefixLen) \o <<"...">>)]

(* json.loads raises inside method 1, 3, 4: the text handed to it is not   *)
(* a JSON document.                                                        *)
Method1Raises(c) ==
    LET i == FindFirst(c, {FenceJson}, 1)
        after == SubSeq(c, i + 1, Len(c))
        k == FindFirst(after, FenceTokens, 1)
        inner == IF k = 0 THEN after ELSE SubSeq(after, 1, k - 1)
    IN ~JsonLoads(inner).ok

Method3Raises(c) ==
    LET i == FindFirst(c, {"{"}, 1)
        j == FindLast(c, {"}"})
    IN i >= 1 /\ j >= i /\ ~JsonLoads(SubSeq(c, i, j)).ok

Method4Raises(c) == ~JsonLoads(c).ok

(* An exception is raised inside one of the methods the chain runs on c:   *)
(* method 1 under its condition, methods 3 and 4 when nothing has returned *)
(* before them.                                                            *)
RaisedInside(c) ==
    LET fenced == IF FenceJson \in TokensOf(c) THEN Method1(c)
                  ELSE IF Fence \in TokensOf(c) THEN Method2(c)
                  ELSE None
    IN \/ FenceJson \in TokensOf(c) /\ Method1Raises(c)
       \/ fenced = None /\ Method3Raises(c)
       \/ fenced = None /\ Method3(c) = None /\ Method4Raises(c)

(* What the caller gets when an exception leaves the function. *)
Traceback == [raised |-> "JSONDecodeError"]

(* Variant: the methods run without a handler around them. *)
Escapes_NoHandler(raised) == raised

(* Each of the methods 1 to 4 runs inside `try: ... except: pass`: the     *)
(* bare except catches whatever is raised inside, nothing leaves.          *)
Escapes(raised) == FALSE

(* The chain: if fence + "json" in content: method 1, elif fence in      *)
(* content: method 2; then methods 3, 4, 5 and the last resort, the first  *)
(* result returned.                                                        *)
ExtractSql(raw) ==
    LET c == Strip(raw)
        fenced == IF FenceJson \in TokensOf(c) THEN Method1(c)
                  ELSE IF Fence \in TokensOf(c) THEN Method2(c)
                  ELSE None
    IN IF Escapes(RaisedInside(c)) THEN Traceback
       ELSE IF fenced # None THEN Get(fenced)
       ELSE IF Method3(c) # None THEN Get(Method3(c))
       ELSE IF Method4(c) # None THEN Get(Method4(c))
       ELSE IF Method5(c) # None THEN Get(Method5(c))
       ELSE LastResort(c)

(* The texts the parser is run on: a core with at most MaxProse tokens of  *)
(* prose before it and after it.                                           *)
MaxProse == 1

ProseTokens ==
    {"w", LongWord, Newline, Fence, FenceJson, "{", "}", "select 1", ";"}

Prose == UNION {[1..n -> ProseTokens] : n \in 0..MaxProse}

Cores ==
    {<<FenceJson, Newline, "{", MemberSql, ",", MemberExpl, "}", Newline, Fence>>,
     <<FenceJson, Newline, "{", MemberSql, "}", Newline, Fence>>,
     <<FenceJson, Newline, "{", MemberSql, ",", Newline, Fence>>,
     <<FenceJson, "{", MemberSqlEmpty, ",", MemberExplEmpty, "}", Fence>>,
     <<FenceJson, "{", MemberSqlNull, ",", MemberExpl, ",", MemberOther, "}", Fence>>,
     <<Fence, "sql", Newline, "select 1", Newline, Fence>>,
     <<Fence, "SQL", Space, "select 1", ";", Fence>>,
     <<Fence, "sql", Newline, Fence>>,
     <<Fence, "sqlite", Newline, "select 1", Newline, Fence>>,
     <<Fence, Newline, "{", MemberSql, ",", MemberExpl, "}", Newline, Fence>>,
     <<"{", MemberSql, ",", Space, MemberExpl, "}">>,
     <<"{", MemberExpl, ",", MemberSqlEmpty, ",", MemberSql, "}">>,
     <<"select 1", Newline, "from t", ";", Newline, "w">>,
     <<"w", Space, "select 1">>,
     <<"from t", ";">>,
     <<"w", Space, LongWord>>,
     <<>>}

ParserTexts == {p \o c \o q : p \in Prose, c \in Cores, q \in Prose}

ParserInit ==
    /\ db_path = ""
    /\ schema_info = <<>>
    /\ max_retries = 0
    /\ AgentIdle
    /\ content \in ParserTexts
    /\ extracted = None
    /\ SchemaIdle
    /\ SessionIdle

(* One call _extract_sql_from_response(content). *)
Extract ==
    /\ extracted = None
    /\ extracted' = Some(ExtractSql(content))
    /\ UNCHANGED content
    /\ UNCHANGED <<agentVars, schemaVars, sessionVars>>

ParserNext == Extract

ParserSpec == ParserInit /\ [][ParserNext]_vars

----------------------------------------------------------------------------
(* Vocabulary of the properties. *)

IsExecute(c) == c.op = "execute_sql"
IsImprove(c) == c.op = "improve_sql"
IsFailedExecute(c) == c.op = "execute_sql" /\ c.error # None

ExecSeq == SelectSeq(calls, IsExecute)
RepairSeq == SelectSeq(calls, IsImprove)
FailedExecSeq == SelectSeq(calls, IsFailedExecute)

Returned == pc = "done"
Resp == Get(response)

(* The attempt records of a response; an absent history holds none. *)
Records(r) == IF r.improvement_history = None THEN <<>> ELSE Get(r.improvement_history)

Contains(text, tok) == \E i \in 1..Len(text) : text[i] = tok

(* The repair call at position i returned an empty SQL or the SQL that just failed. *)
RejectedAt(i) ==
    /\ calls[i].op = "improve_sql"
    /\ calls[i].out.explanation # None
    /\ \/ calls[i].out.sql_query = Some("")
       \/ calls[i].out.sql_query = Some(calls[i].sql)

(* The repair call at position i returned a new, different, non-empty SQL. *)
AcceptedAt(i) ==
    /\ calls[i].op = "improve_sql"
    /\ calls[i].out.sql_query # None
    /\ calls[i].out.explanation # None
    /\ calls[i].out.sql_query # Some("")
    /\ calls[i].out.sql_query # Some(calls[i].sql)

----------------------------------------------------------------------------
\* C1: one process_query call performs at most max_retries executions and at
\* most max_retries repair calls, and the attempt history it builds and
\* returns has at most max_retries records.
C1_RetryBudget ==
    /\ Len(ExecSeq) <= max_retries
    /\ Len(RepairSeq) <= max_retries
    /\ Len(improvement_history) <= max_retries
    /\ Returned => Len(Records(Resp)) <= max_retries

C1_Witness ==
    /\ Returned
    /\ max_retries >= 2
    /\ Len(ExecSeq) = max_retries
    /\ Len(RepairSeq) = max_retries
    /\ Len(Records(Resp)) = max_retries

\* C2: no exception escapes process_query: whatever the generator replies
\* (also an object whose sql_query or explanation is null) and whatever the
\* engine does, the invocation never ends by raising.
C2_NoExceptionEscapes == pc # "raised"

\* C3: if the initial generation yields an empty sql_query, process_query
\* returns at once: no execution, no repair call, error "Could not generate
\* SQL query", no query result, empty final SQL, no attempt records.
C3_EmptyInitialGeneration ==
    (/\ Len(calls) >= 1
     /\ calls[1].out.sql_query = Some("")
     /\ calls[1].out.explanation # None)
    => /\ Returned
       /\ Len(calls) = 1
       /\ Resp.error = Some(<<"Could not generate SQL query">>)
       /\ Resp.query_result = None
       /\ Resp.generated_sql = ""
       /\ Records(Resp) = <<>>

C3_Witness ==
    /\ Returned
    /\ Len(calls) = 1
    /\ calls[1].out.sql_query = Some("")
    /\ Resp.error = Some(<<"Could not generate SQL query">>)

(* The first execution of the initially generated SQL succeeded and the    *)
(* invocation returned.                                                    *)
FirstExecutionSucceeded ==
    /\ Returned
    /\ Len(calls) >= 2
    /\ calls[2].op = "execute_sql"
    /\ calls[2].error = None

\* C4 (as stated): if the first execution succeeds, there is no repair call,
\* the response carries that execution's outcome, error is absent, the final
\* SQL is the initially generated SQL, and the attempt history is the empty
\* sequence.
C4_FirstSuccess_EmptySequence ==
    FirstExecutionSucceeded
    => /\ Len(calls) = 2
       /\ Resp.query_result = calls[2].result
       /\ Resp.error = None
       /\ Resp.generated_sql = Get(calls[1].out.sql_query)
       /\ Resp.improvement_history = Some(<<>>)

\* C4 (amended): if the first execution succeeds, there is no repair call,
\* the response carries that execution's outcome, error is absent, the final
\* SQL is the initially generated SQL, and the attempt history is absent
\* (improvement_history is None), not an empty sequence.
C4_FirstSuccess_NoHistory ==
    FirstExecutionSucceeded
    => /\ Len(calls) = 2
       /\ Resp.query_result = calls[2].result
       /\ Resp.query_result # None
       /\ Resp.error = None
       /\ Resp.generated_sql = Get(calls[1].out.sql_query)
       /\ Resp.improvement_history = None

C4_Witness ==
    /\ FirstExecutionSucceeded
    /\ Get(Resp.query_result).row_count = 2
    /\ Resp.improvement_history = None

\* C5: if the first k-1 executed statements fail and the k-th succeeds
\* (1 <= k <= max_retries), the response has error absent, the k-th statement
\* as final SQL, its outcome as result, and exactly k-1 attempt records, the
\* i-th holding attempt number i, the i-th executed statement and that
\* execution's error message.
C5_SuccessAtK ==
    LET E == ExecSeq
        k == Len(E)
    IN (/\ Returned
        /\ k >= 1
        /\ E[k].error = None
        /\ \A i \in 1..(k - 1) : E[i].error # None)
       => /\ k <= max_retries
          /\ Resp.error = None
          /\ Resp.generated_sql = E[k].sql
          /\ Resp.query_result = E[k].result
          /\ Len(Records(Resp)) = k - 1
          /\ \A i \in 1..(k - 1) :
                Records(Resp)[i] =
                    [attempt |-> i, sql |-> E[i].sql, error |-> Get(E[i].error)]

C5_Witness ==
    /\ Returned
    /\ Len(ExecSeq) = 3
    /\ ExecSeq[3].error = None
    /\ ExecSeq[1].error # ExecSeq[2].error
    /\ ExecSeq[1].sql = ExecSeq[3].sql
    /\ Len(Records(Resp)) = 2

\* C6: when a repair call yields an empty sql_query or the SQL that just
\* failed, the loop halts at once: that repair call is the last call of the
\* invocation even if the retry budget is not used up, and the response's
\* error is the failure message of the last execution.
C6_RejectedRepairHalts ==
    \A i \in 1..Len(calls) :
        RejectedAt(i)
        => /\ i = Len(calls)
           /\ pc \in {"return", "done"}
           /\ Returned => /\ calls[i - 1].op = "execute_sql"
                          /\ Resp.error # None
                          /\ Resp.error = calls[i - 1].error
                          /\ Resp.error = calls[i].error_message

C6_Witness ==
    /\ Returned
    /\ Len(calls) = 3
    /\ RejectedAt(3)
    /\ calls[3].out.sql_query = Some(calls[3].sql)
    /\ attempts + 1 < max_retries

C6_WitnessEmpty ==
    /\ Returned
    /\ Len(calls) = 5
    /\ RejectedAt(5)
    /\ calls[5].out.sql_query = Some("")
    /\ attempts + 1 < max_retries

\* C7: if the initial generation and the first repair produce identical SQL
\* and the execution of that SQL fails, process_query halts with an attempt
\* history of exactly one record, with attempt number 1.
C7_IdenticalFirstRepair ==
    (/\ Returned
     /\ Len(calls) >= 3
     /\ calls[2].error # None
     /\ calls[3].op = "improve_sql"
     /\ calls[3].out.sql_query = calls[1].out.sql_query)
    => /\ Len(calls) = 3
       /\ Resp.improvement_history =
              Some(<< [attempt |-> 1,
                       sql |-> Get(calls[1].out.sql_query),
                       error |-> Get(calls[2].error)] >>)

C7_Witness ==
    /\ Returned
    /\ max_retries >= 2
    /\ Len(calls) = 3
    /\ calls[2].error # None
    /\ calls[3].out.sql_query = calls[1].out.sql_query
    /\ Len(Records(Resp)) = 1

(* The number of failed executions among the first n calls. *)
FailedBefore(n) == Cardinality({j \in 1..n : IsFailedExecute(calls[j])})

\* C8: every failed execution gets exactly one attempt record, appended
\* before the repair call that follows it, whatever later stops the loop: at
\* every repair call and in every response the number of records equals the
\* number of failed executions so far, record by record.
C8_OneRecordPerFailure ==
    /\ Len(improvement_history) = Len(FailedExecSeq)
    /\ \A i \in 1..Len(calls) :
          calls[i].op = "improve_sql"
          => /\ IsFailedExecute(calls[i - 1])
             /\ calls[i].recorded = FailedBefore(i - 1)
    /\ Returned
       => /\ Len(Records(Resp)) = Len(FailedExecSeq)
          /\ \A j \in 1..Len(FailedExecSeq) :
                /\ Records(Resp)[j].sql = FailedExecSeq[j].sql
                /\ Records(Resp)[j].error = Get(FailedExecSeq[j].error)

C8_Witness ==
    /\ Returned
    /\ max_retries >= 2
    /\ Len(FailedExecSeq) = max_retries
    /\ AcceptedAt(Len(calls))
    /\ Len(Records(Resp)) = max_retries

(* Every execution failed and every repair was accepted until the attempt  *)
(* counter reached max_retries.                                            *)
BudgetExhausted ==
    /\ Returned
    /\ max_retries >= 1
    /\ Len(ExecSeq) = max_retries
    /\ Len(FailedExecSeq) = max_retries
    /\ Len(RepairSeq) = max_retries
    /\ \A i \in 1..Len(calls) : calls[i].op = "improve_sql" => AcceptedAt(i)

\* C9: on budget exhaustion process_query exits with no result and with
\* error equal to the failure message of the last execution performed.
C9_BudgetExhaustion ==
    BudgetExhausted
    => /\ Resp.query_result = None
       /\ Resp.error # None
       /\ Resp.error = ExecSeq[Len(ExecSeq)].error

C9_Witness ==
    /\ BudgetExhausted
    /\ max_retries >= 2
    /\ ExecSeq[1].error # ExecSeq[Len(ExecSeq)].error
    /\ Resp.error = ExecSeq[Len(ExecSeq)].error

(* The diagnostic a failed repair generation returned as its explanation.  *)
RepairDiagnostics == {"Error improving SQL: ", "Error parsing LLM response: "}

\* C10: when a repair generation call fails in transport or its text cannot
\* be parsed into SQL, the diagnostic of that failure ("Error improving
\* SQL: ..." or "Error parsing LLM response: ...") appears in the response's
\* error or explanation field.
C10_RepairDiagnosticSurfaced ==
    \A i \in 1..Len(calls) :
        (/\ Returned
         /\ calls[i].op = "improve_sql"
         /\ calls[i].out.explanation # None
         /\ Get(calls[i].out.explanation)[1] \in RepairDiagnostics)
        => \/ Contains(Resp.explanation, Get(calls[i].out.explanation)[1])
           \/ /\ Resp.error # None
              /\ Contains(Get(Resp.error), Get(calls[i].out.explanation)[1])

----------------------------------------------------------------------------
IsGeneratorCall(c) == c.op \in {"generate_sql", "improve_sql"}

TransportFailedAt(i) ==
    /\ IsGeneratorCall(calls[i])
    /\ Get(calls[i].reply).kind = "transport"

\* C11: a transport failure is never retried: every generation or repair
\* call issues exactly one request, a failed request surfaces as a result
\* with empty sql_query and ends the invocation's calls, and a transport
\* failure of the initial generation yields the response with error "Could
\* not generate SQL query" and no execution.
C11_TransportNotRetried ==
    /\ \A i \in 1..Len(calls) :
          IsGeneratorCall(calls[i]) => calls[i].requests = 1
    /\ \A i \in 1..Len(calls) :
          TransportFailedAt(i)
          => /\ calls[i].out.sql_query = Some("")
             /\ i = Len(calls)
             /\ pc \in {"return", "done"}
    /\ (Len(calls) >= 1 /\ TransportFailedAt(1))
       => /\ Returned
          /\ Len(calls) = 1
          /\ Resp.error = Some(<<"Could not generate SQL query">>)
          /\ Resp.query_result = None

C11_Witness ==
    /\ Returned
    /\ Len(calls) = 1
    /\ TransportFailedAt(1)
    /\ Get(calls[1].reply).cause = "status"
    /\ calls[1].requests = 1
    /\ Resp.error = Some(<<"Could not generate SQL query">>)

(* The explanation the calls made so far add up to: the initial            *)
(* explanation, then one tagged segment per accepted repair, numbered from *)
(* 1 in order.                                                             *)
AcceptedUpTo(n) == Cardinality({j \in 1..n : AcceptedAt(j)})

RECURSIVE AccumulatedExplanation(_)
AccumulatedExplanation(n) ==
    IF n = 1 THEN Get(calls[1].out.explanation)
    ELSE IF AcceptedAt(n)
    THEN AccumulatedExplanation(n - 1)
         \o <<"\n\nImproved SQL (attempt ">> \o StrInt(AcceptedUpTo(n)) \o <<"): ">>
         \o Get(calls[n].out.explanation)
    ELSE AccumulatedExplanation(n - 1)

\* C12 (as stated): every response's explanation is the initial
\* generation's explanation followed by one segment "\n\nImproved SQL
\* (attempt N): " + explanation per accepted repair, numbered 1..m in order.
C12_ExplanationInEveryResponse ==
    Returned => Resp.explanation = AccumulatedExplanation(Len(calls))

\* C12 (amended): when the initial generation yields a non-empty SQL, the
\* explanation is the initial explanation followed by one segment
\* "\n\nImproved SQL (attempt N): " + explanation per accepted repair,
\* numbered 1..m in order, at every step of the loop and in the response;
\* when it yields an empty SQL, the response's explanation is "Failed to
\* generate SQL: " followed by the initial explanation.
C12_ExplanationAccumulates ==
    /\ pc \in {"loop", "execute", "repair", "return"}
       => current_explanation = AccumulatedExplanation(Len(calls))
    /\ (Returned /\ calls[1].out.sql_query # Some(""))
       => Resp.explanation = AccumulatedExplanation(Len(calls))
    /\ (Returned /\ calls[1].out.sql_query = Some(""))
       => Resp.explanation =
              <<"Failed to generate SQL: ">> \o Get(calls[1].out.explanation)

C12_Witness ==
    /\ Returned
    /\ AcceptedUpTo(Len(calls)) = 2
    /\ Resp.explanation =
           <<"e1", "\n\nImproved SQL (attempt ", "1", "): ", "e2",
             "\n\nImproved SQL (attempt ", "2", "): ", "e1">>

(* The engine rejected the statement of the execute call at position i. *)
EngineRejectedAt(i) ==
    /\ calls[i].op = "execute_sql"
    /\ Get(calls[i].engine).kind = "error"

\* C13 (as stated): when the engine rejects a statement, the failure message
\* execute_sql returns is exactly the engine's error text, unmodified.
C13_EngineTextUnmodified ==
    \A i \in 1..Len(calls) :
        EngineRejectedAt(i)
        => calls[i].error = Some(<<Get(calls[i].engine).msg>>)

\* C13 (amended): when the engine rejects a statement, the failure message
\* execute_sql returns is "SQL execution error: " followed by the engine's
\* error text, and that same message is what the attempt record stores and
\* what the following repair call receives.
C13_EngineTextPrefixed ==
    \A i \in 1..Len(calls) :
        EngineRejectedAt(i)
        => /\ calls[i].error =
                  Some(<<"SQL execution error: ", Get(calls[i].engine).msg>>)
           /\ improvement_history[FailedBefore(i)].error = Get(calls[i].error)
           /\ improvement_history[FailedBefore(i)].sql = calls[i].sql
           /\ i < Len(calls)
              => /\ calls[i + 1].op = "improve_sql"
                 /\ calls[i + 1].error_message = calls[i].error
                 /\ calls[i + 1].sql = calls[i].sql

C13_Witness ==
    /\ Len(calls) = 5
    /\ EngineRejectedAt(4)
    /\ Get(calls[4].engine).msg = "m2"
    /\ calls[5].error_message = Some(<<"SQL execution error: ", "m2">>)
    /\ improvement_history[2].error = <<"SQL execution error: ", "m2">>

(* The engine accepted the statement of the execute call at position i. *)
EngineAcceptedAt(i) ==
    /\ calls[i].op = "execute_sql"
    /\ Get(calls[i].engine).kind = "rows"

\* C14: every successful result of execute_sql has row_count = number of
\* rows and (columns empty iff rows empty); a statement that succeeds with
\* zero rows yields a success with empty columns and rows, never an error,
\* and is never followed by a repair call.
C14_SuccessShape ==
    \A i \in 1..Len(calls) :
        EngineAcceptedAt(i)
        => /\ calls[i].result # None
           /\ calls[i].error = None
           /\ LET r == Get(calls[i].result)
                  o == Get(calls[i].engine)
              IN /\ r.row_count = Len(r.rows)
                 /\ Len(r.rows) = Len(o.rows)
                 /\ (r.columns = <<>>) <=> (r.rows = <<>>)
           /\ i = Len(calls)
           /\ pc \in {"return", "done"}

C14_Witness ==
    /\ Returned
    /\ Len(calls) = 4
    /\ EngineAcceptedAt(4)
    /\ Get(calls[4].engine).rows = <<>>
    /\ Resp.query_result = Some([columns |-> <<>>, rows |-> <<>>, row_count |-> 0])
    /\ Resp.error = None

\* C15: on a successful execution with at least one row, columns are the
\* engine's projected column names in projection order, every row has as
\* many values as there are columns, and the i-th value of each row is the
\* engine's value for the i-th projected column, also when two projected
\* columns have the same name.
C15_ProjectionOrder ==
    \A i \in 1..Len(calls) :
        (EngineAcceptedAt(i) /\ Get(calls[i].engine).rows # <<>>)
        => LET r == Get(calls[i].result)
               o == Get(calls[i].engine)
           IN /\ r.columns = o.columns
              /\ \A n \in 1..Len(r.rows) :
                    /\ Len(r.rows[n]) = Len(r.columns)
                    /\ \A c \in 1..Len(r.columns) : r.rows[n][c] = o.rows[n][c]

----------------------------------------------------------------------------
(* Vocabulary of the parser properties. *)

Parsed == extracted # None
Out == Get(extracted)

HasFence(c) == TokensOf(c) \cap FenceTokens # {}

(* The object a span of the text parses to, when it parses to an object    *)
(* with both keys.                                                         *)
ObjectOfSpan(c, i, j) == AcceptObject(JsonLoads(SubSeq(c, i, j)))

HasParseableObject(c) ==
    \E i \in 1..Len(c) : \E j \in i..Len(c) :
        /\ c[i] = "{"
        /\ c[j] = "}"
        /\ ObjectOfSpan(c, i, j) # None

(* A well-formed json-tagged block: the tagged fence at i, the closing     *)
(* fence at k, no fence between them and an object with both keys inside.  *)
JsonBlockAt(c, i, k) ==
    /\ i < k
    /\ c[i] = FenceJson
    /\ c[k] = Fence
    /\ \A j \in (i + 1)..(k - 1) : c[j] \notin FenceTokens
    /\ ObjectOfSpan(c, i + 1, k - 1) # None

(* C16: a text that contains a well-formed json-tagged block holding an    *)
(* object with both keys is parsed to the two values of such a block,      *)
(* whatever surrounds the block.                                           *)
C16_JsonBlockWins ==
    Parsed =>
        ((\E i, k \in 1..Len(content) : JsonBlockAt(content, i, k))
            => \E i, k \in 1..Len(content) :
                  /\ JsonBlockAt(content, i, k)
                  /\ Out = Get(ObjectOfSpan(content, i + 1, k - 1)))

(* What the text between the first json-tagged fence and the next fence    *)
(* parses to.                                                              *)
FirstJsonBlock(c) ==
    LET i == FindFirst(c, {FenceJson}, 1)
        later == {k \in (i + 1)..Len(c) : c[k] \in FenceTokens}
        k == IF later = {} THEN Len(c) + 1
             ELSE CHOOSE x \in later : \A y \in later : x <= y
    IN ObjectOfSpan(c, i + 1, k - 1)

(* C17: when the text has a json-tagged fence whose block is malformed or  *)
(* lacks a key, the result is that of the generic code-block method, which *)
(* comes before the brace scan.                                            *)
C17_CodeBlockAfterJsonBlock ==
    Parsed =>
        ((FenceJson \in TokensOf(content) /\ FirstJsonBlock(content) = None)
            => Out = Get(Method2(Strip(content))))

(* A token with SELECT followed later in the text by the terminator. *)
SelectThenTerminator(c) ==
    \E s \in 1..Len(c) : \E t \in (s + 1)..Len(c) :
        c[s] \in SelectTokens /\ c[t] = ";"

(* C18: a text with no fence and no parseable object with both keys that   *)
(* has SELECT followed by ';' is parsed to a non-empty sql_query and the   *)
(* explanation "Extracted SQL query from text".                            *)
C18_KeywordRescue ==
    Parsed =>
        ((/\ ~HasFence(content)
          /\ ~HasParseableObject(content)
          /\ SelectThenTerminator(content))
            => /\ Out.sql_query # None
               /\ Get(Out.sql_query) # <<>>
               /\ Out.explanation = Some(<<"Extracted SQL query from text">>))

(* The statement runs over two lines and ends at the terminator. *)
C18_Witness ==
    /\ Parsed
    /\ ~HasFence(content)
    /\ ~HasParseableObject(content)
    /\ SelectThenTerminator(content)
    /\ \E s \in 1..Len(content) : \E t \in (s + 1)..Len(content) :
          /\ content[s] \in SelectTokens
          /\ content[t] = ";"
          /\ \E n \in (s + 1)..(t - 1) : content[n] = Newline
    /\ Out.sql_query = Some(<<"select 1", Space, "from t">>)

(* len() of a text. *)
RECURSIVE Chars(_)
Chars(t) == IF t = <<>> THEN 0 ELSE Width(Head(t)) + Chars(Tail(t))

NoMethodMatches(c) ==
    /\ ~HasFence(c)
    /\ ~HasParseableObject(c)
    /\ TokensOf(c) \cap SelectTokens = {}

(* C19: a text with no fence, no parseable object with both keys and no    *)
(* SELECT is parsed to sql_query "" and the explanation "Error parsing LLM *)
(* response: ", the first 100 characters of the stripped text, "...".      *)
C19_LastResort ==
    Parsed =>
        (NoMethodMatches(content)
            => /\ Out.sql_query = Some(<<>>)
               /\ Out.explanation =
                      Some(<<"Error parsing LLM response: ">>
                           \o FirstChars(Strip(content), PrefixLen)
                           \o <<"...">>))

(* The stripped text is longer than the prefix, so the quote is cut. *)
C19_Witness ==
    /\ Parsed
    /\ NoMethodMatches(content)
    /\ Chars(Strip(content)) > PrefixLen
    /\ Out.sql_query = Some(<<>>)
    /\ Out.explanation # None
    /\ "[:" \in TokensOf(Get(Out.explanation))

FailureDiagnostics == {"Error parsing LLM response: "}

(* C20: a parse result with an empty sql_query has a non-empty explanation *)
(* that carries the failure reason, never an empty one or the marker of a  *)
(* successful extraction.                                                  *)
C20_EmptySqlCarriesFailure ==
    Parsed =>
        (Out.sql_query = Some(<<>>)
            => /\ Out.explanation # None
               /\ Get(Out.explanation) # <<>>
               /\ Head(Get(Out.explanation)) \in FailureDiagnostics)

----------------------------------------------------------------------------
\* C22: the schema text is built at construction and never changes: every
\* step of every process_query call leaves schema_info, max_retries and
\* db_path as they are, and every generation and repair call receives that
\* same schema text.
C22_SchemaFixed ==
    [][/\ schema_info' = schema_info
       /\ max_retries' = max_retries
       /\ db_path' = db_path
       /\ \A i \in 1..Len(calls') :
             IsGeneratorCall(calls'[i]) => calls'[i].schema = schema_info]_vars

(* A returned invocation that made a generation and a repair call. *)
C22_Witness ==
    /\ Returned
    /\ Len(RepairSeq) >= 1
    /\ schema_info # <<>>
    /\ \A i \in 1..Len(calls) :
          IsGeneratorCall(calls[i]) => calls[i].schema = schema_info

----------------------------------------------------------------------------
(* process_query is one synchronous call chain: once invoked, each of its   *)
(* steps is taken as soon as the generator or engine call it waits for      *)
(* returns. The caller is not obliged to invoke it again.                   *)
FairSpec ==
    /\ Spec
    /\ WF_vars(Generate)
    /\ WF_vars(LoopTest)
    /\ WF_vars(Execute)
    /\ WF_vars(Repair)
    /\ WF_vars(Return)

\* C23: every process_query call reaches a terminal response after finitely
\* many steps, for every max_retries and every behaviour of the generator
\* and the engine, provided each single call returns.
C23_ReachesResponse == (pc = "generate") ~> (response # None)

(* Every process_query call stops: it returns or it raises. *)
CallStops == (pc = "generate") ~> (pc \in {"done", "raised"})

----------------------------------------------------------------------------
IsPrefix(a, b) == Len(a) <= Len(b) /\ SubSeq(b, 1, Len(a)) = a

\* C25: the attempt history is append-only: within a process_query call
\* every step keeps the records it found, in their order and unchanged, and
\* adds at most one record at the end, so that the history at any step is a
\* prefix of the history in the response.
C25_AppendOnly ==
    [][/\ pc' # "generate"
          => /\ IsPrefix(improvement_history, improvement_history')
             /\ Len(improvement_history') <= Len(improvement_history) + 1
       /\ (response = None /\ response' # None)
          => IsPrefix(improvement_history, Records(Get(response')))]_vars

(* A response with two records, the second added after the first. *)
C25_Witness ==
    /\ Returned
    /\ Len(improvement_history) >= 2
    /\ Records(Resp) = improvement_history
    /\ improvement_history[1] # improvement_history[2]

\* C27: in every response with a non-empty final SQL the final SQL is the
\* last statement that was executed, and the reported result or error is the
\* outcome of that execution, whatever stopped the loop.
C27_FinalSqlWasExecuted ==
    (Returned /\ Resp.generated_sql # "")
    => /\ ExecSeq # <<>>
       /\ ExecSeq[Len(ExecSeq)].sql = Resp.generated_sql
       /\ ExecSeq[Len(ExecSeq)].result = Resp.query_result
       /\ ExecSeq[Len(ExecSeq)].error = Resp.error

\* C28: every response has exactly one of query_result and error present,
\* for every max_retries >= 0.
C28_ResultXorError ==
    Returned => ((Resp.query_result # None) # (Resp.error # None))

\* C29: in every response the attempt records are numbered 1, 2, ..., n in
\* execution order: the i-th record has attempt number i and holds the i-th
\* failed execution, whatever stopped the loop.
C29_ConsecutiveNumbers ==
    Returned
    => \A i \in 1..Len(Records(Resp)) :
          /\ Records(Resp)[i].attempt = i
          /\ Records(Resp)[i].sql = FailedExecSeq[i].sql

C29_Witness ==
    /\ Returned
    /\ Len(Records(Resp)) >= 3
    /\ \A i \in 1..Len(Records(Resp)) : Records(Resp)[i].attempt = i

GeneratorCalls == SelectSeq(calls, IsGeneratorCall)

\* C30: within one process_query call generator calls and executions
\* alternate: the first call is the one initial generation, then executions
\* and repair calls take turns, a failed execution is followed by a repair
\* call and a successful one by nothing, so there are at most
\* 1 + max_retries generator calls and, once the loop is left, as many repair
\* calls as failed executions.
C30_Alternation ==
    /\ \A i \in 1..Len(calls) :
          /\ (calls[i].op = "generate_sql") <=> (i = 1)
          /\ i > 1 => ((calls[i].op = "execute_sql") <=> (i % 2 = 0))
          /\ i > 1 => ((calls[i].op = "improve_sql") <=> (i % 2 = 1))
          /\ (calls[i].op = "execute_sql" /\ calls[i].error = None)
             => i = Len(calls)
          /\ (IsFailedExecute(calls[i]) /\ i < Len(calls))
             => calls[i + 1].op = "improve_sql"
    /\ Len(GeneratorCalls) <= 1 + max_retries
    /\ pc \in {"loop", "return", "done", "raised"}
       => Len(RepairSeq) = Len(FailedExecSeq)

(* A failed execution, its repair, and the successful execution that ends   *)
(* the calls.                                                               *)
C30_Witness ==
    /\ Returned
    /\ Len(calls) = 4
    /\ IsFailedExecute(calls[2])
    /\ calls[3].op = "improve_sql"
    /\ calls[4].op = "execute_sql"
    /\ calls[4].error = None

----------------------------------------------------------------------------
(* SQLAgent._get_schema_info on a database.                                *)
(*                                                                         *)
(* catalog.readable : the query on sqlite_master succeeds;                 *)
(* a table has its name, info ("ok", or "error": PRAGMA table_info raises  *)
(* sqlite3.Error), the number of rows it stores and what fetching and      *)
(* rendering its sample does: "ok", "error" (the SELECT or its fetchall    *)
(* raises sqlite3.Error) or "bytes" (the rows hold a value json.dumps does *)
(* not serialise).                                                         *)

MaxTables == 2
MaxStoredRows == 4
SampleLimit == 3

TableNames == {"customers", "orders", "sqlite_sequence"}

(* table.startswith('sqlite_'). *)
StartsWithSqlite(name) == name \in {"sqlite_sequence"}

TableStates ==
    [name : TableNames, info : {"ok", "error"}, stored : 0..MaxStoredRows,
     sample : {"ok", "error", "bytes"}]

Catalogs ==
    [readable : BOOLEAN,
     tables : {t \in UNION {[1..n -> TableStates] : n \in 0..MaxTables} :
                  \A i, j \in 1..Len(t) : i # j => t[i].name # t[j].name}]

(* The rows of PRAGMA table_info: name, type, pk. *)
ColumnsOf(name) ==
    IF name = "orders"
    THEN <<[name |-> "order_id", type |-> "INTEGER", pk |-> 1]>>
    ELSE <<[name |-> "id", type |-> "INTEGER", pk |-> 1],
           [name |-> "name", type |-> "TEXT", pk |-> 0]>>

(* f"- {col_name} ({col_type}) {is_pk}\n" for each column. *)
RECURSIVE ColumnLines(_)
ColumnLines(cols) ==
    IF cols = <<>> THEN <<>>
    ELSE <<"- ", Head(cols).name, " (", Head(cols).type, ") ",
           IF Head(cols).pk = 1 THEN "PRIMARY KEY" ELSE "", "\n">>
         \o ColumnLines(Tail(cols))

(* The rows SELECT * FROM table LIMIT 3 returns. *)
SampleRows(t) == IF t.stored < SampleLimit THEN t.stored ELSE SampleLimit

(* f"- {json.dumps(row_dict)}\n" for the first n rows. *)
RECURSIVE SampleLines(_)
SampleLines(n) ==
    IF n = 0 THEN <<>>
    ELSE SampleLines(n - 1) \o <<"- ", "{", "row ">> \o StrInt(n) \o <<"}", "\n">>

(* The inner try block: sqlite3.Error gives the marker, the TypeError of   *)
(* json.dumps is not caught.                                               *)
SampleBlock(t) ==
    IF t.sample = "error"
    THEN [kind |-> "text", text |-> <<"Could not retrieve sample data.\n">>]
    ELSE IF SampleRows(t) = 0 THEN [kind |-> "text", text |-> <<>>]
    ELSE IF t.sample = "bytes"
    THEN [kind |-> "raised", text |-> <<"TypeError">>]
    ELSE [kind |-> "text", text |-> <<"Sample data:\n">> \o SampleLines(SampleRows(t))]

(* The loop over the tables, left to right, from the text so far. *)
RECURSIVE RenderTables(_, _)
RenderTables(tables, text) ==
    IF tables = <<>> THEN [kind |-> "text", text |-> text]
    ELSE LET t == Head(tables)
             named == text \o <<"Table: ", t.name, "\n">>
         IN IF t.info = "error"
            THEN [kind |-> "text",
                  text |-> <<"Error retrieving schema: ", "m1">>]
            ELSE LET sample == SampleBlock(t)
                 IN IF sample.kind = "raised" THEN sample
                    ELSE RenderTables(Tail(tables),
                                      named \o <<"Columns:\n">>
                                      \o ColumnLines(ColumnsOf(t.name))
                                      \o sample.text \o <<"\n">>)

NotSystemTable(t) == ~StartsWithSqlite(t.name)

(* _get_schema_info. *)
GetSchemaInfo(c) ==
    IF ~c.readable
    THEN [kind |-> "text", text |-> <<"Error retrieving schema: ", "m1">>]
    ELSE RenderTables(SelectSeq(c.tables, NotSystemTable),
                      <<"Database Schema:\n\n">>)

SchemaInit ==
    /\ db_path = ""
    /\ schema_info = <<>>
    /\ max_retries = 0
    /\ AgentIdle
    /\ content = <<>>
    /\ extracted = None
    /\ SessionIdle
    /\ catalog \in Catalogs
    /\ built = None

(* One call of _get_schema_info, made by SQLAgent.__init__. *)
BuildSchema ==
    /\ built = None
    /\ built' = Some(GetSchemaInfo(catalog))
    /\ UNCHANGED catalog
    /\ UNCHANGED <<agentVars, parserVars, sessionVars>>

SchemaNext == BuildSchema

SchemaSpec == SchemaInit /\ [][SchemaNext]_vars

(* The properties of the schema text. *)

(* The section of table name: from its "Table: " line to the next one. *)
SectionStart(text, name) ==
    {p \in 1..(Len(text) - 1) : text[p] = "Table: " /\ text[p + 1] = name}

SectionEnd(text, p) ==
    LET later == {q \in (p + 1)..Len(text) : text[q] = "Table: "}
    IN IF later = {} THEN Len(text)
       ELSE (CHOOSE q \in later : \A r \in later : q <= r) - 1

CountIn(text, lo, hi, tok) == Cardinality({i \in lo..hi : text[i] = tok})

RenderedAsClaimed(text, t) ==
    /\ Cardinality(SectionStart(text, t.name)) = 1
    /\ \A p \in SectionStart(text, t.name) :
          LET e == SectionEnd(text, p) IN
          /\ CountIn(text, p, e, " (") = Len(ColumnsOf(t.name))
          /\ CountIn(text, p, e, "{") <= SampleLimit
          /\ t.sample = "error"
             => /\ CountIn(text, p, e, "Could not retrieve sample data.\n") = 1
                /\ CountIn(text, p, e, "{") = 0
          /\ t.sample # "error"
             => CountIn(text, p, e, "Could not retrieve sample data.\n") = 0

SampleFetchFails(c) ==
    /\ c.readable
    /\ \E i \in 1..Len(c.tables) :
          /\ ~StartsWithSqlite(c.tables[i].name)
          /\ c.tables[i].info = "ok"
          /\ c.tables[i].sample = "error"

\* C26: building the schema description does not fail as a whole when the
\* sample fetch of one table fails: that table's section gets the marker
\* "Could not retrieve sample data.", every other table is still rendered
\* with its columns and at most 3 sample rows, and tables whose name starts
\* with sqlite_ are never rendered.
C26_SampleFailureIsLocal ==
    (built # None /\ SampleFetchFails(catalog))
    => /\ Get(built).kind = "text"
       /\ Get(built).text[1] = "Database Schema:\n\n"
       /\ \A i \in 1..Len(catalog.tables) :
             IF StartsWithSqlite(catalog.tables[i].name)
             THEN SectionStart(Get(built).text, catalog.tables[i].name) = {}
             ELSE RenderedAsClaimed(Get(built).text, catalog.tables[i])

----------------------------------------------------------------------------
(* The shared connection: SQLAgent.execute_sql step by step on the one     *)
(* cursor of the agent, against a database that does not change.           *)

(* What the engine yields for each statement of the database. "qv" calls a *)
(* function that is evaluated anew on each execution (random(), the        *)
(* current time); "q0" selects no row; "q2" is rejected.                   *)
Statements == {"q0", "q1", "q2", "q3", "qv"}

VolatileStatements == {"qv"}

SessionDb(stmt) ==
    CASE stmt = "q0" ->
            {[kind |-> "rows", msg |-> "", columns |-> <<"a", "b">>, rows |-> <<>>]}
      [] stmt = "q1" ->
            {[kind |-> "rows", msg |-> "", columns |-> <<"a", "b">>,
              rows |-> << <<1, 2>>, <<3, 4>> >>]}
      [] stmt = "q3" ->
            {[kind |-> "rows", msg |-> "", columns |-> <<"b", "a">>,
              rows |-> << <<5, 6>> >>]}
      [] stmt = "qv" ->
            {[kind |-> "rows", msg |-> "", columns |-> <<"a", "b">>,
              rows |-> << <<v, 8>> >>] : v \in {7, 9}}
      [] OTHER ->
            {[kind |-> "error", msg |-> "m1", columns |-> <<>>, rows |-> <<>>]}

(* cursor.execute(sql_query): the statement's result set and description   *)
(* replace those of the statement before; a rejected statement leaves      *)
(* neither.                                                                *)
CursorExecute(by, stmt, o) ==
    IF o.kind = "error"
    THEN [by |-> by, stmt |-> stmt, rows |-> <<>>, description |-> <<>>]
    ELSE [by |-> by, stmt |-> stmt, rows |-> o.rows, description |-> o.columns]

(* cursor.fetchall() returns the pending rows and leaves none. *)
CursorFetchAll(cur) == [cur EXCEPT !.rows = <<>>]

(* Variant: the description is read before the statement is executed. *)
ColumnsRead_Stale(before, after) == before.description

(* [desc[0] for desc in self.cursor.description], read after the execute. *)
ColumnsRead(before, after) == after.description

(* The connection is opened with check_same_thread at its default: a use   *)
(* of the cursor from another thread raises sqlite3.ProgrammingError.      *)
ThreadCheck_Off(t, o) == TRUE

ThreadCheck(t, o) == t = o

WrongThread ==
    [kind |-> "error",
     msg |-> "SQLite objects created in a thread can only be used in that same thread.",
     columns |-> <<>>, rows |-> <<>>]

(* -- execute_sql called directly, one call after the other, as            *)
(*    test_sql_generation does. --                                         *)
MaxExecutions == 3

ExecInit ==
    /\ db_path = ""
    /\ schema_info = <<>>
    /\ max_retries = 0
    /\ AgentIdle
    /\ content = <<>>
    /\ extracted = None
    /\ SchemaIdle
    /\ owner = 1
    /\ cursor = FreshCursor
    /\ inv = <<>>
    /\ executions = <<>>

(* One call execute_sql(stmt) from the thread that opened the connection. *)
ExecuteDirect ==
    /\ Len(executions) < MaxExecutions
    /\ \E stmt \in Statements : \E o \in SessionDb(stmt) :
          LET after == CursorExecute(owner, stmt, o)
              seen == [kind |-> o.kind, msg |-> o.msg,
                       columns |-> ColumnsRead(cursor, after),
                       rows |-> after.rows]
              r == ExecuteSql(seen)
          IN /\ executions' = Append(executions, [sql |-> stmt,
                                                  result |-> r.result,
                                                  error |-> r.error])
             /\ cursor' = CursorFetchAll(after)
    /\ UNCHANGED <<owner, inv>>
    /\ UNCHANGED <<agentVars, parserVars, schemaVars>>

ExecNext == ExecuteDirect

ExecSpec == ExecInit /\ [][ExecNext]_vars

SameSuccessfulStatement(i, j) ==
    /\ i < j
    /\ executions[i].sql = executions[j].sql
    /\ executions[i].error = None
    /\ executions[j].error = None

----------------------------------------------------------------------------
(* -- process_query invoked side by side: each invocation in a thread of   *)
(*    its own, the steps of the invocations interleaved, execute_sql taken *)
(*    statement by statement on the shared cursor. --                      *)

Invocations == {1, 2}

MaxSessionRetries == 2

(* The generator's replies to the invocations: an object with both keys. *)
SessionReplies ==
    {r \in GeneratorReplies :
        r.kind = "json" /\ r.sql # None /\ r.expl = Some(<<"e1">>)}

(* The locals of process_query when it is entered. *)
EnteredLocals(q) ==
    [pc |-> "generate", query |-> q, sql |-> "", expl |-> <<>>, attempts |-> 0,
     result |-> None, error |-> None, history |-> <<>>, rows |-> <<>>,
     ran |-> <<>>, response |-> None]

ConcInit ==
    /\ db_path = ""
    /\ schema_info = <<>>
    /\ max_retries \in 0..MaxSessionRetries
    /\ AgentIdle
    /\ content = <<>>
    /\ extracted = None
    /\ SchemaIdle
    /\ owner \in {0} \cup Invocations
    /\ cursor = FreshCursor
    /\ inv = [i \in Invocations |-> EnteredLocals("nq1")]
    /\ executions = <<>>

(* execute_sql returned (None, error): the record is appended, the repair  *)
(* call is next.                                                           *)
AfterFailure(l, r) ==
    [l EXCEPT !.result = r.result,
              !.error = r.error,
              !.history = RecordAttempt(l.history, l.attempts, l.sql, Get(r.error)),
              !.pc = "repair"]

(* execute_sql returned (result, None): break. *)
AfterSuccess(l, r) ==
    [l EXCEPT !.result = r.result, !.error = r.error, !.pc = "return"]

SessionFrame ==
    /\ UNCHANGED <<owner, executions>>
    /\ UNCHANGED <<agentVars, parserVars, schemaVars>>

(* Initial generation and the empty-SQL early return. *)
CGenerate(i) ==
    /\ inv[i].pc = "generate"
    /\ \E reply \in SessionReplies :
         LET d == LLMGenerateSql(reply) IN
         inv' = [inv EXCEPT ![i] =
                   IF NoSqlGenerated(Get(d.sql_query))
                   THEN [@ EXCEPT !.sql = Get(d.sql_query),
                                  !.expl = Get(d.explanation),
                                  !.response = Some(GenerationFailedResponse(
                                                        inv[i].query,
                                                        Get(d.explanation))),
                                  !.pc = "done"]
                   ELSE [@ EXCEPT !.sql = Get(d.sql_query),
                                  !.expl = Get(d.explanation),
                                  !.pc = "loop"]]
    /\ UNCHANGED cursor
    /\ SessionFrame

(* The while condition. *)
CLoopTest(i) ==
    /\ inv[i].pc = "loop"
    /\ inv' = [inv EXCEPT ![i].pc =
                 IF LoopCond(inv[i].attempts, max_retries) THEN "execute"
                 ELSE "return"]
    /\ UNCHANGED cursor
    /\ SessionFrame

(* self.cursor.execute(sql_query). *)
CExecute(i) ==
    /\ inv[i].pc = "execute"
    /\ IF ~ThreadCheck(i, owner)
       THEN /\ inv' = [inv EXCEPT ![i] =
                         AfterFailure([@ EXCEPT !.ran = Append(@, inv[i].sql)],
                                      ExecuteSql(WrongThread))]
            /\ UNCHANGED cursor
       ELSE \E o \in SessionDb(inv[i].sql) :
              /\ cursor' = CursorExecute(i, inv[i].sql, o)
              /\ inv' = [inv EXCEPT ![i] =
                           IF o.kind = "error"
                           THEN AfterFailure([@ EXCEPT !.ran = Append(@, inv[i].sql)],
                                             ExecuteSql(o))
                           ELSE [@ EXCEPT !.ran = Append(@, inv[i].sql),
                                          !.pc = "fetch"]]
    /\ SessionFrame

(* rows = self.cursor.fetchall() and the empty success. *)
CFetch(i) ==
    /\ inv[i].pc = "fetch"
    /\ IF ~ThreadCheck(i, owner)
       THEN /\ inv' = [inv EXCEPT ![i] = AfterFailure(@, ExecuteSql(WrongThread))]
            /\ UNCHANGED cursor
       ELSE /\ cursor' = CursorFetchAll(cursor)
            /\ inv' = [inv EXCEPT ![i] =
                         IF cursor.rows = <<>>
                         THEN AfterSuccess(@, ExecuteSql(
                                  [kind |-> "rows", msg |-> "",
                                   columns |-> <<>>, rows |-> <<>>]))
                         ELSE [@ EXCEPT !.rows = cursor.rows, !.pc = "describe"]]
    /\ SessionFrame

(* columns from self.cursor.description, the rows by column name, the      *)
(* SQLQueryResult.                                                         *)
CDescribe(i) ==
    /\ inv[i].pc = "describe"
    /\ inv' = [inv EXCEPT ![i] =
                 AfterSuccess(@, ExecuteSql(
                     [kind |-> "rows", msg |-> "",
                      columns |-> cursor.description, rows |-> inv[i].rows]))]
    /\ UNCHANGED cursor
    /\ SessionFrame

(* improve_sql(...), the break on an empty or unchanged repair, the update. *)
CRepair(i) ==
    /\ inv[i].pc = "repair"
    /\ \E reply \in SessionReplies :
         LET d == LLMImproveSql(reply) IN
         inv' = [inv EXCEPT ![i] =
                   IF RepairRejected(Get(d.sql_query), @.sql)
                   THEN [@ EXCEPT !.pc = "return"]
                   ELSE [@ EXCEPT !.sql = Get(d.sql_query),
                                  !.expl = ExtendExplanation(@, inv[i].attempts,
                                                             Get(d.explanation)),
                                  !.attempts = @ + 1,
                                  !.pc = "loop"]]
    /\ UNCHANGED cursor
    /\ SessionFrame

(* return SQLAgentResponse(...). *)
CReturn(i) ==
    /\ inv[i].pc = "return"
    /\ inv' = [inv EXCEPT ![i] =
                 [@ EXCEPT !.response =
                               Some(AssembleResponse(inv[i].query, inv[i].sql,
                                                     inv[i].expl, inv[i].result,
                                                     inv[i].error, inv[i].history)),
                           !.pc = "done"]]
    /\ UNCHANGED cursor
    /\ SessionFrame

ConcNext ==
    \E i \in Invocations :
        \/ CGenerate(i)
        \/ CLoopTest(i)
        \/ CExecute(i)
        \/ CFetch(i)
        \/ CDescribe(i)
        \/ CRepair(i)
        \/ CReturn(i)

ConcSpec == ConcInit /\ [][ConcNext]_vars

(* The results and failure messages execute_sql can give for a statement   *)
(* of the database.                                                        *)
OwnResults(stmt) ==
    {ExecuteSql(o).result : o \in {x \in SessionDb(stmt) : x.kind = "rows"}}

OwnErrors(stmt) ==
    {ExecuteSql(o).error : o \in {x \in SessionDb(stmt) : x.kind = "error"}}
    \cup {ExecuteSql(WrongThread).error}

InSeq(x, s) == \E k \in 1..Len(s) : s[k] = x

\* C21: when several process_query invocations run on the same agent and
\* their steps interleave, the columns and rows each invocation holds and
\* returns are those of the statement that invocation itself executed last,
\* and each of its attempt records holds a statement it executed itself with
\* a failure message of that statement.
C21_Isolation ==
    \A i \in Invocations :
        /\ inv[i].result # None
           => /\ inv[i].ran # <<>>
              /\ inv[i].result \in OwnResults(inv[i].ran[Len(inv[i].ran)])
        /\ \A k \in 1..Len(inv[i].history) :
              /\ inv[i].history[k].sql = inv[i].ran[k]
              /\ Some(inv[i].history[k].error) \in OwnErrors(inv[i].history[k].sql)
        /\ inv[i].response # None
           => /\ Get(inv[i].response).query_result = inv[i].result
              /\ Records(Get(inv[i].response)) = inv[i].history

(* Two invocations under way at once: the one in the connection's thread   *)
(* holds the rows of its own statement while the other, which ran another  *)
(* statement in between, waits for its repair.                             *)
C21_Witness ==
    /\ owner = 1
    /\ inv[1].pc = "return"
    /\ inv[1].ran = <<"q1">>
    /\ inv[1].result \in OwnResults("q1")
    /\ inv[2].pc = "repair"
    /\ inv[2].ran = <<"q3">>
    /\ Len(inv[2].history) = 1

----------------------------------------------------------------------------
\* C31: the initial generation call receives the original question and no
\* error context; every repair call receives the original question
\* unchanged, the schema snapshot, the statement that failed in the
\* immediately preceding execution and that execution's error message, never
\* an earlier statement or error.
C31_GeneratorArguments ==
    \A i \in 1..Len(calls) :
        /\ calls[i].op = "generate_sql"
           => /\ i = 1
              /\ calls[i].query = natural_query
              /\ calls[i].schema = schema_info
              /\ calls[i].error_message = None
        /\ calls[i].op = "improve_sql"
           => /\ i >= 3
              /\ calls[i].query = natural_query
              /\ calls[i].query = calls[1].query
              /\ calls[i].schema = schema_info
              /\ calls[i - 1].op = "execute_sql"
              /\ calls[i - 1].error # None
              /\ calls[i].sql = calls[i - 1].sql
              /\ calls[i].error_message = calls[i - 1].error

C31_Witness ==
    /\ Len(calls) >= 5
    /\ calls[5].op = "improve_sql"
    /\ calls[5].sql # calls[3].sql
    /\ calls[5].error_message # calls[3].error_message
    /\ calls[5].sql = calls[4].sql
    /\ calls[5].error_message = calls[4].error

(* The last call of the invocation is a repair call whose result was       *)
(* rejected.                                                               *)
LastRepairRejected == calls # <<>> /\ RejectedAt(Len(calls))

\* C32: when a repair result is rejected (empty sql_query, or the SQL that
\* just failed), the step that makes the repair call leaves the current SQL,
\* the current explanation and the attempt counter as they were before the
\* call, and the response's final SQL and explanation are exactly those
\* values: the rejected repair's SQL and explanation are not adopted or
\* appended.
C32_RejectedRepairNotAdopted ==
    [][/\ (~LastRepairRejected /\ LastRepairRejected')
          => /\ pc = "repair"
             /\ current_sql' = current_sql
             /\ current_explanation' = current_explanation
             /\ attempts' = attempts
             /\ current_sql' = calls'[Len(calls')].sql
       /\ (LastRepairRejected /\ LastRepairRejected')
          => /\ UNCHANGED <<current_sql, current_explanation, attempts>>
             /\ response' # None
                => /\ Get(response').generated_sql = current_sql
                   /\ Get(response').explanation = current_explanation]_vars

(* A response after one accepted and one rejected repair, the rejected one *)
(* carrying an explanation of its own.                                     *)
C32_Witness ==
    /\ Returned
    /\ LastRepairRejected
    /\ Len(calls) = 5
    /\ AcceptedAt(3)
    /\ calls[5].out.explanation # calls[3].out.explanation
    /\ attempts = 1
    /\ Resp.generated_sql = calls[5].sql
    /\ Resp.explanation = current_explanation

\* C33: in every response any two consecutive attempt records hold different
\* SQL strings, and the loop never executes the same statement twice in a
\* row.
C33_NoImmediateRepeat ==
    /\ \A i \in 1..(Len(ExecSeq) - 1) : ExecSeq[i].sql # ExecSeq[i + 1].sql
    /\ Returned
       => \A i \in 1..(Len(Records(Resp)) - 1) :
             Records(Resp)[i].sql # Records(Resp)[i + 1].sql

(* Three records, the third holding the statement of the first again. *)
C33_Witness ==
    /\ Returned
    /\ Len(Records(Resp)) = 3
    /\ Records(Resp)[1].sql = Records(Resp)[3].sql
    /\ Records(Resp)[1].sql # Records(Resp)[2].sql
    /\ Len(ExecSeq) = 3

----------------------------------------------------------------------------
(* -- process_query invoked again and again on one agent, from the thread  *)
(*    that opened the connection, each invocation after the one before has *)
(*    returned or raised; execute_sql runs on the cursor the invocations   *)
(*    share, which keeps what the last statement left in it. --            *)

MaxSeqRetries == 2

SeqInit ==
    /\ Constructed
    /\ max_retries \in 0..MaxSeqRetries
    /\ AgentIdle
    /\ content = <<>>
    /\ extracted = None
    /\ SchemaIdle
    /\ owner = 1
    /\ cursor = FreshCursor
    /\ inv = <<>>
    /\ executions = <<>>

(* execute_sql(current_sql) on the shared cursor, the break on success,    *)
(* the attempt record.                                                     *)
ExecuteOnCursor ==
    /\ pc = "execute"
    /\ \E o \in EngineOutcomes :
         LET after == CursorExecute(owner, current_sql, o)
             seen == [kind |-> o.kind, msg |-> o.msg,
                      columns |-> ColumnsRead(cursor, after),
                      rows |-> after.rows]
             r == ExecuteSql(seen)
         IN
         /\ cursor' = CursorFetchAll(after)
         /\ result' = r.result
         /\ error' = r.error
         /\ calls' = Append(calls, ExecuteCall(current_sql, o, r))
         /\ IF ExecutionSucceeded(r.error)
            THEN /\ pc' = "return"
                 /\ UNCHANGED improvement_history
            ELSE /\ improvement_history' =
                        RecordAttempt(improvement_history, attempts, current_sql,
                                      Get(r.error))
                 /\ pc' = "repair"
    /\ UNCHANGED <<db_path, schema_info, max_retries, natural_query, current_sql,
                   current_explanation, attempts, response>>
    /\ UNCHANGED <<owner, inv, executions>>
    /\ UNCHANGED <<parserVars, schemaVars>>

SeqNext == Call \/ Generate \/ LoopTest \/ ExecuteOnCursor \/ Repair \/ Return

SeqSpec == SeqInit /\ [][SeqNext]_vars

(* What came into the running invocation from outside: the generator's     *)
(* reply or the engine's outcome of each call, in order.                   *)
Inputs == [i \in 1..Len(calls) |-> [reply |-> calls[i].reply, engine |-> calls[i].engine]]

(* The response as a function of the question, the retry budget and the    *)
(* inputs alone, computed from empty locals: None when the invocation ends *)
(* by raising.  l holds the locals, k the position of the next input.      *)
RECURSIVE ReplayLoop(_, _, _, _, _)
ReplayLoop(q, m, in, k, l) ==
    IF ~(l.attempts < m)
    THEN Some(AssembleResponse(q, l.sql, l.expl, l.result, l.error, l.history))
    ELSE LET r == ExecuteSql(Get(in[k].engine)) IN
         IF r.error = None
         THEN Some(AssembleResponse(q, l.sql, l.expl, r.result, r.error, l.history))
         ELSE LET h == Append(l.history, [attempt |-> l.attempts + 1, sql |-> l.sql,
                                          error |-> Get(r.error)])
                  d == LLMImproveSql(Get(in[k + 1].reply))
              IN IF d.sql_query = None \/ d.explanation = None THEN None
                 ELSE IF Get(d.sql_query) = "" \/ Get(d.sql_query) = l.sql
                 THEN Some(AssembleResponse(q, l.sql, l.expl, r.result, r.error, h))
                 ELSE ReplayLoop(q, m, in, k + 2,
                                 [sql |-> Get(d.sql_query),
                                  expl |-> ExtendExplanation(l.expl, l.attempts,
                                                             Get(d.explanation)),
                                  attempts |-> l.attempts + 1,
                                  result |-> r.result,
                                  error |-> r.error,
                                  history |-> h])

Replay(q, m, in) ==
    LET d == LLMGenerateSql(Get(in[1].reply)) IN
    IF d.sql_query = None \/ d.explanation = None THEN None
    ELSE IF Get(d.sql_query) = ""
    THEN Some(GenerationFailedResponse(q, Get(d.explanation)))
    ELSE ReplayLoop(q, m, in, 2,
                    [sql |-> Get(d.sql_query), expl |-> Get(d.explanation),
                     attempts |-> 0, result |-> None, error |-> None,
                     history |-> <<>>])

\* C34: process_query keeps no state between invocations. In any sequence
\* of non-overlapping calls on one agent, whatever the calls before left in
\* the shared cursor: the response of a call (or its ending by raising) is
\* the one computed from that call's question, the generator's replies and
\* the engine's outcomes during that call alone; the attempt counter and the
\* history are empty until the call's first execution; and every call makes
\* its own generation call, whose result is the first statement it executes.
C34_NoStateBetweenInvocations ==
    /\ pc = "done" => response = Replay(natural_query, max_retries, Inputs)
    /\ pc = "raised"
       => /\ response = None
          /\ Replay(natural_query, max_retries, Inputs) = None
    /\ (pc # "idle" /\ Len(calls) <= 1)
       => /\ attempts = 0
          /\ improvement_history = <<>>
          /\ result = None
          /\ error = None
    /\ pc \notin {"idle", "generate"}
       => /\ calls[1].op = "generate_sql"
          /\ calls[1].query = natural_query
    /\ ExecSeq # <<>> => Some(ExecSeq[1].sql) = calls[1].out.sql_query

(* A later invocation returns rows of its own statement while, before its  *)
(* execution, the cursor still held what an earlier invocation ran.        *)
C34_Witness ==
    /\ Returned
    /\ max_retries = 2
    /\ Len(calls) = 4
    /\ calls[2].error # None
    /\ AcceptedAt(3)
    /\ Resp.query_result # None
    /\ Get(Resp.query_result).columns = <<"a">>
    /\ cursor.stmt = Resp.generated_sql
    /\ response = Replay(natural_query, max_retries, Inputs)

(* An invocation that has generated its statement and executed nothing,    *)
(* the cursor holding the statement and columns of an invocation before.   *)
C34_WitnessLater ==
    /\ pc = "loop"
    /\ Len(calls) = 1
    /\ cursor.stmt # ""
    /\ cursor.stmt # current_sql
    /\ cursor.description = <<"a", "b">>
    /\ attempts = 0
    /\ improvement_history = <<>>

----------------------------------------------------------------------------
(* The positions of the fences of a text. *)
FencePositions(c) == {i \in 1..Len(c) : c[i] = Fence}

(* A fenced code block and no json-tagged fence. *)
HasPlainCodeBlock(c) ==
    /\ FenceJson \notin TokensOf(c)
    /\ Cardinality(FencePositions(c)) >= 2

(* The inner content of the first block: what stands between the first     *)
(* fence and the next one, without the whitespace around it.               *)
FirstBlockInner(c) ==
    LET i == CHOOSE x \in FencePositions(c) : \A y \in FencePositions(c) : x <= y
        rest == FencePositions(c) \ {i}
        k == CHOOSE x \in rest : \A y \in rest : x <= y
    IN Strip(SubSeq(c, i + 1, k - 1))

(* The inner content with a leading token sql, in any case, removed. *)
WithoutSqlTag(b) ==
    IF b # <<>> /\ Head(b) \in {"sql", "SQL"} THEN Strip(Tail(b)) ELSE b

\* C35: when the text contains a fenced code block and no json-tagged fence,
\* the parser returns the first block's inner content as sql_query, with a
\* leading token sql removed case-insensitively, and the explanation
\* "Extracted SQL query from code block"; methods 3 to 5 are not consulted,
\* even if the text or the block holds a well-formed object with both keys.
C35_CodeBlock ==
    Parsed =>
        (HasPlainCodeBlock(content)
            => /\ Out.sql_query = Some(WithoutSqlTag(FirstBlockInner(content)))
               /\ Out.explanation = Some(<<"Extracted SQL query from code block">>))

(* The span from i to j is a well-formed object with both keys. *)
ObjectAt(c, i, j) ==
    /\ i < j
    /\ c[i] = "{"
    /\ c[j] = "}"
    /\ ObjectOfSpan(c, i, j) # None

\* C36: when the text has no fenced block and contains, embedded in prose, a
\* well-formed object with both keys sql_query and explanation, the parser
\* returns exactly the two values of such an object, whatever the prose
\* around it is, also prose that itself contains a brace.
C36_EmbeddedObject ==
    Parsed =>
        ((/\ ~HasFence(content)
          /\ \E i, j \in 1..Len(content) : ObjectAt(content, i, j))
            => \E i, j \in 1..Len(content) :
                  /\ ObjectAt(content, i, j)
                  /\ Out = Get(ObjectOfSpan(content, i, j)))

====
